---- MODULE Spec2Model ----
(***************************************************************************)
(* EvKey state machine model: the state builder (events_to_states), the    *)
(* run-length merge (merge_consecutive_states) and the state player        *)
(* (states_to_events) of src/src/state.rs.                                 *)
(*                                                                         *)
(* A RecordedEvent is a record                                             *)
(*   [timestamp_us, type, code, value]                                     *)
(* with type one of "KEY", "RELATIVE", "SYNCHRONIZATION", "MISC" (the      *)
(* evdev EventType of the event; "MISC" stands for every other type).      *)
(* A MacroState is a record                                                *)
(*   [duration_ms, keys_pressed, mouse_delta, scroll_delta]                *)
(* with the two deltas as pairs <<a, b>>.                                  *)
(***************************************************************************)
EXTENDS Integers, Sequences, FiniteSets

VARIABLES
    pc,                 \* position in the pipeline record -> built -> play -> played -> done
    events,             \* events_to_states: the events consumed so far (the input slice)
    states,             \* events_to_states: the local Vec `states` (pre-filter, pre-merge)
    current_keys,       \* events_to_states: held keys
    last_timestamp_us,  \* events_to_states: timestamp of the previous event
    accumulated_mouse,  \* events_to_states: mouse accumulator
    accumulated_scroll, \* events_to_states: scroll accumulator
    result,             \* the Vec returned by events_to_states
    pstates,            \* states_to_events: the input slice
    idx,                \* states_to_events: number of states already played
    pevents,            \* states_to_events: the local Vec `events`
    timestamp_us,       \* states_to_events: the virtual clock
    held,               \* states_to_events: its `current_keys`
    merged,             \* the Vec returned by merge_consecutive_states(pstates)
    rebuilt,            \* events_to_states applied to the player's output
    kcode,              \* keymap: the keycode passed to keycode_to_name
    kname,              \* keymap: the Option<String> returned by keycode_to_name
    kquery,             \* keymap: the name passed to name_to_keycode
    kfound              \* keymap: the Option<u16> returned by name_to_keycode

vars == <<pc, events, states, current_keys, last_timestamp_us, accumulated_mouse,
          accumulated_scroll, result, pstates, idx, pevents, timestamp_us, held,
          merged, rebuilt, kcode, kname, kquery, kfound>>

keymapVars == <<kcode, kname, kquery, kfound>>

builderVars == <<events, states, current_keys, last_timestamp_us, accumulated_mouse,
                 accumulated_scroll, result>>

playerVars == <<pstates, idx, pevents, timestamp_us, held>>

----------------------------------------------------------------------------
(* Bounds of the model *)

MaxEvents == 3
MaxKeyEvents == 4
MaxRoundEvents == 4
MaxHoldEvents == 4
MaxStates == 3
MaxKeycode == 300

----------------------------------------------------------------------------
(* Helpers *)

Abs(x) == IF x < 0 THEN -x ELSE x

RECURSIVE SumDurations(_)
SumDurations(ss) ==
    IF ss = << >> THEN 0 ELSE Head(ss).duration_ms + SumDurations(Tail(ss))

\* every enumeration order of a set: the iteration order of a HashSet is unspecified
Orders(S) ==
    {q \in [1..Cardinality(S) -> S] : \A i, j \in 1..Cardinality(S) : i # j => q[i] # q[j]}

\* Option<T>
None == <<"None">>

Some(x) == <<"Some", x>>

Event(t, ty, c, v) == [timestamp_us |-> t, type |-> ty, code |-> c, value |-> v]

----------------------------------------------------------------------------
(* MacroState *)

MacroState_new(duration_ms) ==
    [duration_ms |-> duration_ms, keys_pressed |-> {},
     mouse_delta |-> <<0, 0>>, scroll_delta |-> <<0, 0>>]

is_empty(s) ==
    /\ s.keys_pressed = {}
    /\ s.mouse_delta = <<0, 0>>
    /\ s.scroll_delta = <<0, 0>>

----------------------------------------------------------------------------
(* events_to_states *)

abs_diff(a, b) == IF a >= b THEN a - b ELSE b - a

saturating_sub(a, b) == IF a >= b THEN a - b ELSE 0

\* the builder's locals as one record
Locals(st, ck, lt, am, as) ==
    [states |-> st, current_keys |-> ck, last_timestamp_us |-> lt,
     accumulated_mouse |-> am, accumulated_scroll |-> as]

InitLocals == Locals(<< >>, {}, 0, <<0, 0>>, <<0, 0>>)

\* lines 54-70: save the current state if at least one millisecond has passed
SaveState_any_elapsed(b, event) ==
    LET elapsed_us == saturating_sub(event.timestamp_us, b.last_timestamp_us)
        duration_ms == elapsed_us \div 1000
    IN  IF elapsed_us > 0
        THEN [b EXCEPT
                !.states = Append(@, [duration_ms |-> duration_ms,
                                      keys_pressed |-> b.current_keys,
                                      mouse_delta |-> b.accumulated_mouse,
                                      scroll_delta |-> b.accumulated_scroll]),
                !.accumulated_mouse = <<0, 0>>,
                !.accumulated_scroll = <<0, 0>>]
        ELSE b

SaveState_no_reset(b, event) ==
    LET elapsed_us == saturating_sub(event.timestamp_us, b.last_timestamp_us)
        duration_ms == elapsed_us \div 1000
    IN  IF elapsed_us > 0 /\ duration_ms > 0
        THEN [b EXCEPT
                !.states = Append(@, [duration_ms |-> duration_ms,
                                      keys_pressed |-> b.current_keys,
                                      mouse_delta |-> b.accumulated_mouse,
                                      scroll_delta |-> b.accumulated_scroll])]
        ELSE b

SaveState(b, event) ==
    LET elapsed_us == saturating_sub(event.timestamp_us, b.last_timestamp_us)
        duration_ms == elapsed_us \div 1000
    IN  IF elapsed_us > 0 /\ duration_ms > 0
        THEN [b EXCEPT
                !.states = Append(@, [duration_ms |-> duration_ms,
                                      keys_pressed |-> b.current_keys,
                                      mouse_delta |-> b.accumulated_mouse,
                                      scroll_delta |-> b.accumulated_scroll]),
                !.accumulated_mouse = <<0, 0>>,
                !.accumulated_scroll = <<0, 0>>]
        ELSE b

\* lines 73-108: process the event
ProcessEvent_repeat_presses(b, event) ==
    IF event.type = "KEY"
    THEN IF event.value = 0 THEN [b EXCEPT !.current_keys = @ \ {event.code}]
         ELSE [b EXCEPT !.current_keys = @ \cup {event.code}]
    ELSE IF event.type = "RELATIVE"
    THEN IF event.code = 0 THEN [b EXCEPT !.accumulated_mouse[1] = @ + event.value]
         ELSE IF event.code = 1 THEN [b EXCEPT !.accumulated_mouse[2] = @ + event.value]
         ELSE IF event.code = 8 THEN [b EXCEPT !.accumulated_scroll[1] = @ + event.value]
         ELSE IF event.code = 6 THEN [b EXCEPT !.accumulated_scroll[2] = @ + event.value]
         ELSE b
    ELSE b

ProcessEvent(b, event) ==
    IF event.type = "KEY"
    THEN IF event.value = 1 THEN [b EXCEPT !.current_keys = @ \cup {event.code}]
         ELSE IF event.value = 0 THEN [b EXCEPT !.current_keys = @ \ {event.code}]
         ELSE b
    ELSE IF event.type = "RELATIVE"
    THEN IF event.code = 0 THEN [b EXCEPT !.accumulated_mouse[1] = @ + event.value]
         ELSE IF event.code = 1 THEN [b EXCEPT !.accumulated_mouse[2] = @ + event.value]
         ELSE IF event.code = 8 THEN [b EXCEPT !.accumulated_scroll[1] = @ + event.value]
         ELSE IF event.code = 6 THEN [b EXCEPT !.accumulated_scroll[2] = @ + event.value]
         ELSE b
    ELSE b

\* lines 53-111: one iteration of the loop over the events
LoopBody_stale_timestamp(b, event) == ProcessEvent(SaveState(b, event), event)

LoopBody(b, event) ==
    [ProcessEvent(SaveState(b, event), event) EXCEPT !.last_timestamp_us = event.timestamp_us]

\* lines 113-120: the final state, if keys are still pressed or actions remain
FinalState_always(b) ==
    Append(b.states, [duration_ms |-> 0,
                      keys_pressed |-> b.current_keys,
                      mouse_delta |-> b.accumulated_mouse,
                      scroll_delta |-> b.accumulated_scroll])

FinalState_keys_only(b) ==
    IF b.current_keys # {}
    THEN Append(b.states, [duration_ms |-> 0,
                           keys_pressed |-> b.current_keys,
                           mouse_delta |-> b.accumulated_mouse,
                           scroll_delta |-> b.accumulated_scroll])
    ELSE b.states

FinalState(b) ==
    IF b.current_keys # {} \/ b.accumulated_mouse # <<0, 0>> \/ b.accumulated_scroll # <<0, 0>>
    THEN Append(b.states, [duration_ms |-> 0,
                           keys_pressed |-> b.current_keys,
                           mouse_delta |-> b.accumulated_mouse,
                           scroll_delta |-> b.accumulated_scroll])
    ELSE b.states

\* lines 122-128: small mouse movements are zeroed
FilterState_threshold_3(state) ==
    LET distance == Abs(state.mouse_delta[1]) + Abs(state.mouse_delta[2])
    IN  IF distance < 3 THEN [state EXCEPT !.mouse_delta = <<0, 0>>] ELSE state

FilterState(state) ==
    LET distance == Abs(state.mouse_delta[1]) + Abs(state.mouse_delta[2])
    IN  IF distance < 5 THEN [state EXCEPT !.mouse_delta = <<0, 0>>] ELSE state

FilterSmallMovements(ss) == [i \in 1..Len(ss) |-> FilterState(ss[i])]

\* lines 146-150: the condition under which `state` is merged into `current`
CanMerge(current, state) ==
    /\ current.keys_pressed = state.keys_pressed
    /\ current.mouse_delta = <<0, 0>>
    /\ state.mouse_delta = <<0, 0>>
    /\ current.scroll_delta = <<0, 0>>
    /\ state.scroll_delta = <<0, 0>>

\* merges pairs: the merged state is pushed at once
RECURSIVE MergeLoop_pairs(_, _, _)
MergeLoop_pairs(acc, current, rest) ==
    IF rest = << >> THEN Append(acc, current)
    ELSE LET state == Head(rest)
         IN  IF CanMerge(current, state)
             THEN IF Tail(rest) = << >>
                  THEN Append(acc, [current EXCEPT !.duration_ms = @ + state.duration_ms])
                  ELSE MergeLoop_pairs(
                          Append(acc, [current EXCEPT !.duration_ms = @ + state.duration_ms]),
                          Head(Tail(rest)), Tail(Tail(rest)))
             ELSE MergeLoop_pairs(Append(acc, current), state, Tail(rest))

RECURSIVE MergeLoop(_, _, _)
MergeLoop(acc, current, rest) ==
    IF rest = << >> THEN Append(acc, current)
    ELSE LET state == Head(rest)
         IN  IF CanMerge(current, state)
             THEN MergeLoop(acc,
                            [current EXCEPT !.duration_ms = @ + state.duration_ms],
                            Tail(rest))
             ELSE MergeLoop(Append(acc, current), state, Tail(rest))

merge_keep_all(ss) == ss

merge_consecutive_states(ss) ==
    IF ss = << >> THEN ss ELSE MergeLoop(<< >>, ss[1], Tail(ss))

\* lines 113-131: everything after the loop
AfterLoop(b) == merge_consecutive_states(FilterSmallMovements(FinalState(b)))

RECURSIVE RunLoop(_, _)
RunLoop(b, evs) ==
    IF evs = << >> THEN b ELSE RunLoop(LoopBody(b, Head(evs)), Tail(evs))

\* lines 43-45 and 131: what is returned, for the slice and the locals the loop left
Returned_one_wait(evs, b) ==
    IF evs = << >> THEN <<MacroState_new(0)>> ELSE AfterLoop(b)

Returned(evs, b) == IF evs = << >> THEN << >> ELSE AfterLoop(b)

events_to_states(evs) == Returned(evs, RunLoop(InitLocals, evs))

----------------------------------------------------------------------------
(* states_to_events *)

\* lines 182-203 and 253-262: a Key event and a Synchronization event per key
RECURSIVE KeyEvents(_, _, _)
KeyEvents(order, ts, value) ==
    IF order = << >> THEN << >>
    ELSE <<Event(ts, "KEY", Head(order), value), Event(ts, "SYNCHRONIZATION", 0, 0)>>
         \o KeyEvents(Tail(order), ts, value)

\* lines 206-223: mouse movement, x then y
MouseEvents(state, ts) ==
    IF state.mouse_delta # <<0, 0>>
    THEN (IF state.mouse_delta[1] # 0
          THEN <<Event(ts, "RELATIVE", 0, state.mouse_delta[1])>> ELSE << >>)
         \o (IF state.mouse_delta[2] # 0
             THEN <<Event(ts, "RELATIVE", 1, state.mouse_delta[2])>> ELSE << >>)
         \o <<Event(ts, "SYNCHRONIZATION", 0, 0)>>
    ELSE << >>

\* lines 226-243: scroll, vertical (REL_WHEEL) then horizontal (REL_HWHEEL)
ScrollEvents_swapped(state, ts) ==
    IF state.scroll_delta # <<0, 0>>
    THEN (IF state.scroll_delta[1] # 0
          THEN <<Event(ts, "RELATIVE", 6, state.scroll_delta[1])>> ELSE << >>)
         \o (IF state.scroll_delta[2] # 0
             THEN <<Event(ts, "RELATIVE", 8, state.scroll_delta[2])>> ELSE << >>)
         \o <<Event(ts, "SYNCHRONIZATION", 0, 0)>>
    ELSE << >>

ScrollEvents(state, ts) ==
    IF state.scroll_delta # <<0, 0>>
    THEN (IF state.scroll_delta[1] # 0
          THEN <<Event(ts, "RELATIVE", 8, state.scroll_delta[1])>> ELSE << >>)
         \o (IF state.scroll_delta[2] # 0
             THEN <<Event(ts, "RELATIVE", 6, state.scroll_delta[2])>> ELSE << >>)
         \o <<Event(ts, "SYNCHRONIZATION", 0, 0)>>
    ELSE << >>

\* lines 171-179: the key diff of a state against the keys currently held
keys_to_press(state, keys) == state.keys_pressed \ keys

keys_to_release_none(state, keys) == {}

keys_to_release(state, keys) == keys \ state.keys_pressed

\* lines 181-243: the events of one state, the two key vectors in the given orders
StateEvents_press_first(state, ts, release_order, press_order) ==
    KeyEvents(press_order, ts, 1) \o KeyEvents(release_order, ts, 0)
    \o MouseEvents(state, ts) \o ScrollEvents(state, ts)

StateEvents(state, ts, release_order, press_order) ==
    KeyEvents(release_order, ts, 0) \o KeyEvents(press_order, ts, 1)
    \o MouseEvents(state, ts) \o ScrollEvents(state, ts)

\* lines 253-262: the releases of the keys that remain held at the end
ReleaseAll_none(order, ts) == << >>

ReleaseAll(order, ts) == KeyEvents(order, ts, 0)

\* line 249: the clock after a state
AdvanceTime_ms(ts, state) == ts + state.duration_ms

AdvanceTime(ts, state) == ts + state.duration_ms * 1000

\* line 246: the keys held after a state
UpdateKeys_union(keys, state) == keys \cup state.keys_pressed

UpdateKeys(keys, state) == state.keys_pressed

----------------------------------------------------------------------------
(* keymap.rs: names are sequences of characters *)

\* str::to_uppercase and str::to_lowercase on the ASCII letters; every other
\* character of the names used here is left as it is
LowerLetters ==
    <<"a", "b", "c", "d", "e", "f", "g", "h", "i", "j", "k", "l", "m",
      "n", "o", "p", "q", "r", "s", "t", "u", "v", "w", "x", "y", "z">>

UpperLetters ==
    <<"A", "B", "C", "D", "E", "F", "G", "H", "I", "J", "K", "L", "M",
      "N", "O", "P", "Q", "R", "S", "T", "U", "V", "W", "X", "Y", "Z">>

UpperChar(c) ==
    IF \E i \in 1..Len(LowerLetters) : LowerLetters[i] = c
    THEN UpperLetters[CHOOSE i \in 1..Len(LowerLetters) : LowerLetters[i] = c]
    ELSE c

LowerChar(c) ==
    IF \E i \in 1..Len(UpperLetters) : UpperLetters[i] = c
    THEN LowerLetters[CHOOSE i \in 1..Len(UpperLetters) : UpperLetters[i] = c]
    ELSE c

to_uppercase_missing(name) == name

to_uppercase(name) == [i \in 1..Len(name) |-> UpperChar(name[i])]

to_lowercase(name) == [i \in 1..Len(name) |-> LowerChar(name[i])]

\* lines 20-138: the entries of HashMap::from, as <<keycode, name>>
QwertyEntries ==
    {<<16, <<"Q">>>>,
     <<17, <<"W">>>>,
     <<18, <<"E">>>>,
     <<19, <<"R">>>>,
     <<20, <<"T">>>>,
     <<21, <<"Y">>>>,
     <<22, <<"U">>>>,
     <<23, <<"I">>>>,
     <<24, <<"O">>>>,
     <<25, <<"P">>>>,
     <<30, <<"A">>>>,
     <<31, <<"S">>>>,
     <<32, <<"D">>>>,
     <<33, <<"F">>>>,
     <<34, <<"G">>>>,
     <<35, <<"H">>>>,
     <<36, <<"J">>>>,
     <<37, <<"K">>>>,
     <<38, <<"L">>>>,
     <<44, <<"Z">>>>,
     <<45, <<"X">>>>,
     <<46, <<"C">>>>,
     <<47, <<"V">>>>,
     <<48, <<"B">>>>,
     <<49, <<"N">>>>,
     <<50, <<"M">>>>,
     <<2, <<"1">>>>,
     <<3, <<"2">>>>,
     <<4, <<"3">>>>,
     <<5, <<"4">>>>,
     <<6, <<"5">>>>,
     <<7, <<"6">>>>,
     <<8, <<"7">>>>,
     <<9, <<"8">>>>,
     <<10, <<"9">>>>,
     <<11, <<"0">>>>,
     <<12, <<"M", "I", "N", "U", "S">>>>,
     <<13, <<"E", "Q", "U", "A", "L">>>>,
     <<59, <<"F", "1">>>>,
     <<60, <<"F", "2">>>>,
     <<61, <<"F", "3">>>>,
     <<62, <<"F", "4">>>>,
     <<63, <<"F", "5">>>>,
     <<64, <<"F", "6">>>>,
     <<65, <<"F", "7">>>>,
     <<66, <<"F", "8">>>>,
     <<67, <<"F", "9">>>>,
     <<68, <<"F", "1", "0">>>>,
     <<87, <<"F", "1", "1">>>>,
     <<88, <<"F", "1", "2">>>>,
     <<1, <<"E", "S", "C">>>>,
     <<14, <<"B", "A", "C", "K", "S", "P", "A", "C", "E">>>>,
     <<15, <<"T", "A", "B">>>>,
     <<28, <<"E", "N", "T", "E", "R">>>>,
     <<29, <<"C", "T", "R", "L">>>>,
     <<42, <<"S", "H", "I", "F", "T">>>>,
     <<54, <<"R", "I", "G", "H", "T", "S", "H", "I", "F", "T">>>>,
     <<56, <<"A", "L", "T">>>>,
     <<57, <<"S", "P", "A", "C", "E">>>>,
     <<58, <<"C", "A", "P", "S", "L", "O", "C", "K">>>>,
     <<97, <<"R", "I", "G", "H", "T", "C", "T", "R", "L">>>>,
     <<100, <<"R", "I", "G", "H", "T", "A", "L", "T">>>>,
     <<102, <<"H", "O", "M", "E">>>>,
     <<103, <<"U", "P">>>>,
     <<104, <<"P", "A", "G", "E", "U", "P">>>>,
     <<105, <<"L", "E", "F", "T">>>>,
     <<106, <<"R", "I", "G", "H", "T">>>>,
     <<107, <<"E", "N", "D">>>>,
     <<108, <<"D", "O", "W", "N">>>>,
     <<109, <<"P", "A", "G", "E", "D", "O", "W", "N">>>>,
     <<110, <<"I", "N", "S", "E", "R", "T">>>>,
     <<111, <<"D", "E", "L", "E", "T", "E">>>>,
     <<26, <<"L", "E", "F", "T", "B", "R", "A", "C", "E">>>>,
     <<27, <<"R", "I", "G", "H", "T", "B", "R", "A", "C", "E">>>>,
     <<39, <<"S", "E", "M", "I", "C", "O", "L", "O", "N">>>>,
     <<40, <<"A", "P", "O", "S", "T", "R", "O", "P", "H", "E">>>>,
     <<41, <<"G", "R", "A", "V", "E">>>>,
     <<43, <<"B", "A", "C", "K", "S", "L", "A", "S", "H">>>>,
     <<51, <<"C", "O", "M", "M", "A">>>>,
     <<52, <<"D", "O", "T">>>>,
     <<53, <<"S", "L", "A", "S", "H">>>>,
     <<55, <<"K", "P", "A", "S", "T", "E", "R", "I", "S", "K">>>>,
     <<71, <<"K", "P", "7">>>>,
     <<72, <<"K", "P", "8">>>>,
     <<73, <<"K", "P", "9">>>>,
     <<74, <<"K", "P", "M", "I", "N", "U", "S">>>>,
     <<75, <<"K", "P", "4">>>>,
     <<76, <<"K", "P", "5">>>>,
     <<77, <<"K", "P", "6">>>>,
     <<78, <<"K", "P", "P", "L", "U", "S">>>>,
     <<79, <<"K", "P", "1">>>>,
     <<80, <<"K", "P", "2">>>>,
     <<81, <<"K", "P", "3">>>>,
     <<82, <<"K", "P", "0">>>>,
     <<83, <<"K", "P", "D", "O", "T">>>>,
     <<96, <<"K", "P", "E", "N", "T", "E", "R">>>>,
     <<98, <<"K", "P", "S", "L", "A", "S", "H">>>>,
     <<272, <<"B", "T", "N", "_", "L", "E", "F", "T">>>>,
     <<273, <<"B", "T", "N", "_", "R", "I", "G", "H", "T">>>>,
     <<274, <<"B", "T", "N", "_", "M", "I", "D", "D", "L", "E">>>>}

\* lines 20-138: the map; of two entries with one keycode the HashMap keeps one
get_qwerty_map ==
    [k \in {e[1] : e \in QwertyEntries} |-> (CHOOSE e \in QwertyEntries : e[1] = k)[2]]

\* lines 141-143: the reverse map, collected from the entries of the map
get_qwerty_reverse_map ==
    [n \in {get_qwerty_map[k] : k \in DOMAIN get_qwerty_map} |->
        CHOOSE k \in DOMAIN get_qwerty_map : get_qwerty_map[k] = n]

\* lines 8-11
keycode_to_name(keycode) ==
    IF keycode \in DOMAIN get_qwerty_map THEN Some(get_qwerty_map[keycode]) ELSE None

\* lines 14-17
name_to_keycode(name) ==
    IF to_uppercase(name) \in DOMAIN get_qwerty_reverse_map
    THEN Some(get_qwerty_reverse_map[to_uppercase(name)])
    ELSE None

----------------------------------------------------------------------------
(* The inputs *)

KeyCodes == {17, 30}
Times == {0, 500, 2000}

InputKinds ==
    {<<"KEY", k, v>> : k \in KeyCodes, v \in {0, 1}}
    \cup {<<"KEY", 17, 2>>}
    \cup {<<"RELATIVE", 0, 3>>, <<"RELATIVE", 0, -5>>, <<"RELATIVE", 1, 3>>,
          <<"RELATIVE", 8, 1>>, <<"RELATIVE", 6, -1>>, <<"RELATIVE", 2, 7>>}
    \cup {<<"SYNCHRONIZATION", 0, 0>>, <<"MISC", 4, 1>>}

Gaps == {0, 1000, 2000}

RoundKinds ==
    {<<"KEY", k, v>> : k \in KeyCodes, v \in {0, 1}}
    \cup {<<"RELATIVE", 0, 5>>, <<"RELATIVE", 8, 1>>, <<"SYNCHRONIZATION", 0, 0>>}
RoundGaps == {0, 1000}

HoldKinds ==
    {<<"KEY", 17, 1>>, <<"KEY", 17, 0>>, <<"KEY", 30, 1>>,
     <<"RELATIVE", 0, 5>>, <<"SYNCHRONIZATION", 0, 0>>}
HoldGaps == {0, 500, 1000}

Durations == {0, 2}
Motions == {<<<<0, 0>>, <<0, 0>>>>, <<<<5, -2>>, <<0, 0>>>>, <<<<0, 3>>, <<1, -1>>>>}

UnknownNames ==
    {<<"I", "N", "V", "A", "L", "I", "D">>, << >>, <<"W", "W">>, <<"w", " ">>,
     <<"K", "P">>, <<"F", "1", "3">>, <<"b", "t", "n", "-", "l", "e", "f", "t">>}

GivenStates ==
    {[duration_ms |-> d, keys_pressed |-> ks, mouse_delta |-> m[1], scroll_delta |-> m[2]] :
        d \in Durations, ks \in SUBSET KeyCodes, m \in Motions}


----------------------------------------------------------------------------
(* Actions *)

Init ==
    /\ pc = "record"
    /\ events = << >>
    /\ states = << >>
    /\ current_keys = {}
    /\ last_timestamp_us = 0
    /\ accumulated_mouse = <<0, 0>>
    /\ accumulated_scroll = <<0, 0>>
    /\ result = << >>
    /\ pstates = << >>
    /\ idx = 0
    /\ pevents = << >>
    /\ timestamp_us = 0
    /\ held = {}
    /\ merged = << >>
    /\ rebuilt = << >>
    /\ kcode = 0
    /\ kname = None
    /\ kquery = << >>
    /\ kfound = None

\* one iteration of the loop of events_to_states, on the next event of the slice
Record(event) ==
    /\ pc = "record"
    /\ LET b == LoopBody(Locals(states, current_keys, last_timestamp_us,
                                accumulated_mouse, accumulated_scroll), event)
       IN  /\ states' = b.states
           /\ current_keys' = b.current_keys
           /\ last_timestamp_us' = b.last_timestamp_us
           /\ accumulated_mouse' = b.accumulated_mouse
           /\ accumulated_scroll' = b.accumulated_scroll
    /\ events' = Append(events, event)
    /\ UNCHANGED <<pc, result, playerVars, merged, rebuilt, keymapVars>>

\* the end of the slice: final state, jitter filter, merge, return
Finish ==
    /\ pc = "record"
    /\ result' = Returned(events, Locals(states, current_keys, last_timestamp_us,
                                         accumulated_mouse, accumulated_scroll))
    /\ pc' = "built"
    /\ UNCHANGED <<events, states, current_keys, last_timestamp_us, accumulated_mouse,
                   accumulated_scroll, playerVars, merged, rebuilt, keymapVars>>

RecordAny ==
    /\ Len(events) < MaxEvents
    /\ \E k \in InputKinds, t \in Times : Record(Event(t, k[1], k[2], k[3]))

\* the builder's result is handed to the player
StartPlay ==
    /\ pc = "built"
    /\ pstates' = result
    /\ pc' = "play"
    /\ UNCHANGED <<builderVars, idx, pevents, timestamp_us, held, merged, rebuilt, keymapVars>>

\* lines 169-250: one iteration of the loop of states_to_events
PlayState ==
    /\ pc = "play"
    /\ idx < Len(pstates)
    /\ LET state == pstates[idx + 1]
       IN  /\ \E ro \in Orders(keys_to_release(state, held)),
                 po \in Orders(keys_to_press(state, held)) :
                  pevents' = pevents \o StateEvents(state, timestamp_us, ro, po)
           /\ held' = UpdateKeys(held, state)
           /\ timestamp_us' = AdvanceTime(timestamp_us, state)
    /\ idx' = idx + 1
    /\ UNCHANGED <<pc, builderVars, pstates, merged, rebuilt, keymapVars>>

\* lines 252-264: release all remaining keys at the end and return
PlayEnd ==
    /\ pc = "play"
    /\ idx = Len(pstates)
    /\ \E ro \in Orders(held) : pevents' = pevents \o ReleaseAll(ro, timestamp_us)
    /\ pc' = "played"
    /\ UNCHANGED <<builderVars, pstates, idx, timestamp_us, held, merged, rebuilt, keymapVars>>

\* the player's events are fed back through the builder
Rebuild ==
    /\ pc = "played"
    /\ rebuilt' = events_to_states(pevents)
    /\ pc' = "done"
    /\ UNCHANGED <<builderVars, playerVars, merged, keymapVars>>

\* merge_consecutive_states applied to a given state sequence
Merge ==
    /\ pc = "given"
    /\ merged' = merge_consecutive_states(pstates)
    /\ pc' = "play"
    /\ UNCHANGED <<builderVars, playerVars, rebuilt, keymapVars>>

Next ==
    \/ RecordAny
    \/ Finish

Spec == Init /\ [][Next]_vars

\* key presses and releases only, timestamps non-decreasing in whole milliseconds;
\* the states built are then played
RecordKeys ==
    /\ Len(events) < MaxKeyEvents
    /\ \E k \in KeyCodes, v \in {0, 1}, g \in Gaps :
          Record(Event(last_timestamp_us + g, "KEY", k, v))

NextKeys ==
    \/ RecordKeys
    \/ Finish
    \/ StartPlay
    \/ PlayState
    \/ PlayEnd

SpecKeys == Init /\ [][NextKeys]_vars

\* keys, motion and scroll, timestamps non-decreasing; the states built are played
\* and the events played are built into states again
RecordRound ==
    /\ Len(events) < MaxRoundEvents
    /\ \E k \in RoundKinds, g \in RoundGaps :
          Record(Event(last_timestamp_us + g, k[1], k[2], k[3]))

NextRound ==
    \/ RecordRound
    \/ Finish
    \/ StartPlay
    \/ PlayState
    \/ PlayEnd
    \/ Rebuild

SpecRound == Init /\ [][NextRound]_vars

\* a key held while other events arrive, timestamps non-decreasing in steps of half
\* a millisecond
RecordHold ==
    /\ Len(events) < MaxHoldEvents
    /\ \E k \in HoldKinds, g \in HoldGaps :
          Record(Event(last_timestamp_us + g, k[1], k[2], k[3]))

NextHold ==
    \/ RecordHold
    \/ Finish

SpecHold == Init /\ [][NextHold]_vars

\* any sequence of at most MaxStates macro states, merged and played
InitStates ==
    /\ pc = "given"
    /\ events = << >>
    /\ states = << >>
    /\ current_keys = {}
    /\ last_timestamp_us = 0
    /\ accumulated_mouse = <<0, 0>>
    /\ accumulated_scroll = <<0, 0>>
    /\ result = << >>
    /\ pstates \in UNION {[1..n -> GivenStates] : n \in 0..MaxStates}
    /\ idx = 0
    /\ pevents = << >>
    /\ timestamp_us = 0
    /\ held = {}
    /\ merged = << >>
    /\ rebuilt = << >>
    /\ kcode = 0
    /\ kname = None
    /\ kquery = << >>
    /\ kfound = None

NextStates ==
    \/ Merge
    \/ PlayState
    \/ PlayEnd

SpecStates == InitStates /\ [][NextStates]_vars

\* keycode_to_name on any keycode up to MaxKeycode, then name_to_keycode on the name
\* returned, as it is, in lower case or with a lower-case first letter; or
\* name_to_keycode on a name of no key
InitKeymap ==
    /\ pc = "keymap"
    /\ events = << >>
    /\ states = << >>
    /\ current_keys = {}
    /\ last_timestamp_us = 0
    /\ accumulated_mouse = <<0, 0>>
    /\ accumulated_scroll = <<0, 0>>
    /\ result = << >>
    /\ pstates = << >>
    /\ idx = 0
    /\ pevents = << >>
    /\ timestamp_us = 0
    /\ held = {}
    /\ merged = << >>
    /\ rebuilt = << >>
    /\ kcode = 0
    /\ kname = None
    /\ kquery = << >>
    /\ kfound = None

KeycodeToName ==
    /\ pc = "keymap"
    /\ \E k \in 0..MaxKeycode :
          /\ kcode' = k
          /\ kname' = keycode_to_name(k)
    /\ pc' = "named"
    /\ UNCHANGED <<builderVars, playerVars, merged, rebuilt, kquery, kfound>>

NameToKeycode ==
    /\ pc = "named"
    /\ kname # None
    /\ \E n \in {kname[2], to_lowercase(kname[2]),
                 [kname[2] EXCEPT ![1] = LowerChar(@)]} :
          /\ kquery' = n
          /\ kfound' = name_to_keycode(n)
    /\ pc' = "found"
    /\ UNCHANGED <<builderVars, playerVars, merged, rebuilt, kcode, kname>>

UnknownNameToKeycode ==
    /\ pc = "keymap"
    /\ \E n \in UnknownNames :
          /\ kquery' = n
          /\ kfound' = name_to_keycode(n)
    /\ pc' = "found"
    /\ UNCHANGED <<builderVars, playerVars, merged, rebuilt, kcode, kname>>

NextKeymap ==
    \/ KeycodeToName
    \/ NameToKeycode
    \/ UnknownNameToKeycode

SpecKeymap == InitKeymap /\ [][NextKeymap]_vars

----------------------------------------------------------------------------
(* Properties of events_to_states *)

NonDecreasing(evs) ==
    \A i \in 1..Len(evs) - 1 : evs[i].timestamp_us <= evs[i + 1].timestamp_us

WholeMillis(evs) == \A i \in 1..Len(evs) : evs[i].timestamp_us % 1000 = 0

\* the whole milliseconds of every gap between consecutive events, the first gap
\* counted from 0
RECURSIVE GapMillis(_, _)
GapMillis(prev, evs) ==
    IF evs = << >> THEN 0
    ELSE (IF Head(evs).timestamp_us >= prev
          THEN (Head(evs).timestamp_us - prev) \div 1000 ELSE 0)
         + GapMillis(Head(evs).timestamp_us, Tail(evs))

\* the states with a trailing zero-duration state left out
WithoutTerminal(ss) ==
    IF ss # << >> /\ ss[Len(ss)].duration_ms = 0 THEN SubSeq(ss, 1, Len(ss) - 1) ELSE ss

\* the builder's locals, as the loop left them
BuilderLocals ==
    Locals(states, current_keys, last_timestamp_us, accumulated_mouse, accumulated_scroll)

Distance(state) == Abs(state.mouse_delta[1]) + Abs(state.mouse_delta[2])

\* C1 as stated: for a non-empty input with non-decreasing timestamps the durations
\* of the returned states (a trailing zero-duration state left out) add up to
\* floor((last_timestamp_us - first_timestamp_us) / 1000).
C1_DurationAccounting_Original ==
    (pc = "built" /\ events # << >> /\ NonDecreasing(events))
    => SumDurations(WithoutTerminal(result))
         = (events[Len(events)].timestamp_us - events[1].timestamp_us) \div 1000

\* C1 amended: for a non-empty input with non-decreasing timestamps the durations of
\* the returned states add up to the sum over the events of
\* floor((timestamp_i - timestamp_(i-1)) / 1000), the clock starting at timestamp_0 = 0;
\* the sum is at most floor(last_timestamp_us / 1000) and equals it when every
\* timestamp is a whole number of milliseconds.
C1_DurationAccounting ==
    (pc = "built" /\ events # << >> /\ NonDecreasing(events))
    => LET total == SumDurations(WithoutTerminal(result))
           last == events[Len(events)].timestamp_us
       IN  /\ total = SumDurations(result)
           /\ total = GapMillis(0, events)
           /\ total <= last \div 1000
           /\ WholeMillis(events) => total = last \div 1000

\* a recording that starts after 0 and loses sub-millisecond remainders in the middle
C1_Witness ==
    /\ pc = "built"
    /\ Len(events) >= 3
    /\ NonDecreasing(events)
    /\ events[1].timestamp_us > 0
    /\ SumDurations(result) > 0
    /\ SumDurations(result) < events[Len(events)].timestamp_us \div 1000

\* C5: no two adjacent states of the builder's output have the same keys_pressed
\* while both have zero mouse_delta and zero scroll_delta.
C5_NoAdjacentDuplicates ==
    pc = "built"
    => \A i \in 1..Len(result) - 1 :
          ~ /\ result[i].keys_pressed = result[i + 1].keys_pressed
            /\ result[i].mouse_delta = <<0, 0>> /\ result[i + 1].mouse_delta = <<0, 0>>
            /\ result[i].scroll_delta = <<0, 0>> /\ result[i + 1].scroll_delta = <<0, 0>>

\* the final zero-duration state was merged into its predecessor, and two states remain
C5_Witness ==
    /\ pc = "built"
    /\ current_keys # {}
    /\ Len(result) = 2
    /\ Len(FinalState(BuilderLocals)) = 3
    /\ result[2].duration_ms > 0

\* C6: every state of the builder's output has |mouse_delta.0| + |mouse_delta.1|
\* equal to 0 or at least 5.
C6_JitterBound ==
    pc = "built" => \A i \in 1..Len(result) : Distance(result[i]) = 0 \/ Distance(result[i]) >= 5

\* one state had a movement below the threshold zeroed, another kept its movement
C6_Witness ==
    /\ pc = "built"
    /\ \E i \in 1..Len(FinalState(BuilderLocals)) :
          Distance(FinalState(BuilderLocals)[i]) \in 1..4
    /\ \E i \in 1..Len(result) : Distance(result[i]) >= 5

\* the step of the loop that consumes an event older than its predecessor
OutOfOrderStep ==
    /\ pc = "record" /\ pc' = "record"
    /\ Len(events') = Len(events) + 1
    /\ events'[Len(events')].timestamp_us < last_timestamp_us

\* what an event does to the live accumulators
Applied(e) ==
    /\ current_keys' =
         IF e.type = "KEY" /\ e.value = 1 THEN current_keys \cup {e.code}
         ELSE IF e.type = "KEY" /\ e.value = 0 THEN current_keys \ {e.code}
         ELSE current_keys
    /\ accumulated_mouse' =
         <<accumulated_mouse[1] + (IF e.type = "RELATIVE" /\ e.code = 0 THEN e.value ELSE 0),
           accumulated_mouse[2] + (IF e.type = "RELATIVE" /\ e.code = 1 THEN e.value ELSE 0)>>
    /\ accumulated_scroll' =
         <<accumulated_scroll[1] + (IF e.type = "RELATIVE" /\ e.code = 8 THEN e.value ELSE 0),
           accumulated_scroll[2] + (IF e.type = "RELATIVE" /\ e.code = 6 THEN e.value ELSE 0)>>

\* C10: an event whose timestamp is lower than the previous event's emits no state,
\* is still applied to the held keys and the mouse and scroll accumulators, and the
\* loop goes on from its timestamp.
C10_OutOfOrder ==
    [][OutOfOrderStep
         => /\ states' = states
            /\ Applied(events'[Len(events')])
            /\ last_timestamp_us' = events'[Len(events')].timestamp_us]_vars

\* a key press arrived with an older timestamp while motion was accumulated
C10_Witness ==
    /\ pc = "record"
    /\ Len(events) >= 2
    /\ events[Len(events)].timestamp_us < events[Len(events) - 1].timestamp_us
    /\ events[Len(events)].type = "KEY" /\ events[Len(events)].value = 1
    /\ events[Len(events)].code \in current_keys
    /\ accumulated_mouse # <<0, 0>>
    /\ states # << >>

----------------------------------------------------------------------------
(* Properties of the round trips *)

Plain(duration_ms, keys) ==
    [duration_ms |-> duration_ms, keys_pressed |-> keys,
     mouse_delta |-> <<0, 0>>, scroll_delta |-> <<0, 0>>]

IsKey(e, code, value) == e.type = "KEY" /\ e.code = code /\ e.value = value

\* press k1, release k1, press k2, release k2 at 0 < t1 < t2 < t3
TwoHolds(evs) ==
    /\ Len(evs) = 4
    /\ evs[1].timestamp_us = 0
    /\ evs[1].timestamp_us < evs[2].timestamp_us
    /\ evs[2].timestamp_us < evs[3].timestamp_us
    /\ evs[3].timestamp_us < evs[4].timestamp_us
    /\ WholeMillis(evs)
    /\ \E k1, k2 \in KeyCodes :
          /\ k1 # k2
          /\ IsKey(evs[1], k1, 1) /\ IsKey(evs[2], k1, 0)
          /\ IsKey(evs[3], k2, 1) /\ IsKey(evs[4], k2, 0)

\* press k at 0, release k at t1 > 0
OneHold(evs) ==
    /\ Len(evs) = 2
    /\ evs[1].timestamp_us = 0
    /\ evs[2].timestamp_us > 0
    /\ WholeMillis(evs)
    /\ \E k \in KeyCodes : IsKey(evs[1], k, 1) /\ IsKey(evs[2], k, 0)

\* C4: two key holds separated by an idle gap give exactly three states, the hold
\* of k1, the wait and the hold of k2, with zero motion and no trailing state; one
\* hold alone gives the single state of that hold.
C4_HoldsAndGap ==
    /\ (pc = "built" /\ TwoHolds(events))
       => result = <<Plain(events[2].timestamp_us \div 1000, {events[1].code}),
                     Plain((events[3].timestamp_us - events[2].timestamp_us) \div 1000, {}),
                     Plain((events[4].timestamp_us - events[3].timestamp_us) \div 1000,
                           {events[3].code})>>
    /\ (pc = "built" /\ OneHold(events))
       => result = <<Plain(events[2].timestamp_us \div 1000, {events[1].code})>>

\* W held, a longer wait, A held
C4_Witness ==
    /\ pc = "built"
    /\ TwoHolds(events)
    /\ events[1].code = 17
    /\ events[3].timestamp_us - events[2].timestamp_us = 2000
    /\ Len(result) = 3

\* the keys held at time t in an event stream: those whose latest press or release
\* with a timestamp <= t is a press
HeldAt(evs, t) ==
    {k \in KeyCodes :
        LET I == {i \in 1..Len(evs) : /\ evs[i].type = "KEY" /\ evs[i].code = k
                                      /\ evs[i].value \in {0, 1}
                                      /\ evs[i].timestamp_us <= t}
        IN  I # {} /\ evs[CHOOSE i \in I : \A j \in I : j <= i].value = 1}

\* the held keys of a stream change only at the timestamps of its events: the times
\* 0, ts and ts - 1 for every timestamp ts of either stream decide every time
SampleTimes(evs, pevs) ==
    {0} \cup {evs[i].timestamp_us : i \in 1..Len(evs)}
        \cup {evs[i].timestamp_us - 1 : i \in 1..Len(evs)}
        \cup {pevs[i].timestamp_us : i \in 1..Len(pevs)}
        \cup {pevs[i].timestamp_us - 1 : i \in 1..Len(pevs)}

\* C3: for events with non-decreasing timestamps in whole milliseconds, the events
\* played from the states built hold, at every time before the last timestamp of the
\* input, the keys the input holds at that time.
C3_HeldKeyTimeline ==
    (pc = "played" /\ events # << >> /\ NonDecreasing(events) /\ WholeMillis(events))
    => \A t \in SampleTimes(events, pevents) :
          (0 <= t /\ t < events[Len(events)].timestamp_us)
          => HeldAt(pevents, t) = HeldAt(events, t)

\* no key held at first, then both keys at once, then one, before the end of the input
C3_Witness ==
    /\ pc = "played"
    /\ Len(events) = 4
    /\ \E t1, t2, t3 \in SampleTimes(events, pevents) :
          /\ 0 <= t1 /\ t1 < t2 /\ t2 < t3 /\ t3 < events[Len(events)].timestamp_us
          /\ HeldAt(pevents, t1) = {}
          /\ HeldAt(pevents, t2) = KeyCodes
          /\ Cardinality(HeldAt(pevents, t3)) = 1

\* C2 as stated: the states built from the events played from a builder output S
\* are S.
C2_RoundTrip_Original == pc = "done" => rebuilt = result

\* a state sequence whose every state starts with an event of the player and whose
\* end is marked by the final releases
Replayable(ss) ==
    /\ \A i \in 1..Len(ss) : ss[i].duration_ms > 0
    /\ ss # << >> => ss[Len(ss)].keys_pressed # {}
    /\ \A i \in 2..Len(ss) :
          \/ ss[i].keys_pressed # ss[i - 1].keys_pressed
          \/ ss[i].mouse_delta # <<0, 0>>
          \/ ss[i].scroll_delta # <<0, 0>>

\* C2 amended: the states built from the events played from a builder output S are S
\* when every state of S has duration_ms > 0, the last state of S has keys pressed,
\* and every state after the first differs from its predecessor in keys_pressed or
\* has a non-zero mouse_delta or scroll_delta.
C2_RoundTrip ==
    (pc = "done" /\ Replayable(result)) => rebuilt = result

\* a wait with motion followed by a key hold went round
C2_Witness ==
    /\ pc = "done"
    /\ Replayable(result)
    /\ Len(result) = 2
    /\ result[1].mouse_delta # <<0, 0>> \/ result[1].scroll_delta # <<0, 0>>
    /\ rebuilt = result

----------------------------------------------------------------------------
(* Properties of merge_consecutive_states and states_to_events *)

C7_MergeOfTwo ==
    (Len(pstates) = 2 /\ CanMerge(pstates[1], pstates[2]))
    => merged = <<[pstates[1] EXCEPT
                      !.duration_ms = pstates[1].duration_ms + pstates[2].duration_ms]>>

\* C7: merging the merged sequence again changes nothing, for any state sequence;
\* two adjacent states with equal keys and zero motion become one state whose
\* duration_ms is the sum of theirs.
C7_MergeIdempotent ==
    (pc = "play" /\ idx = 0)
    => /\ merge_consecutive_states(merged) = merged
       /\ C7_MergeOfTwo
       /\ SumDurations(merged) = SumDurations(pstates)

\* three states with equal keys and no motion were merged into one
C7_Witness ==
    /\ pc = "play" /\ idx = 0
    /\ Len(pstates) = 3
    /\ Len(merged) = 1
    /\ merged[1].duration_ms = 6

LastKeyEvent(evs, k) ==
    LET I == {i \in 1..Len(evs) : evs[i].type = "KEY" /\ evs[i].code = k}
    IN  evs[CHOOSE i \in I : \A j \in I : j <= i]

\* C8: in the player's output the last Key event of every key that was pressed is a
\* release, and the releases of the keys held in the last state carry the final
\* clock value, 1000 times the sum of all duration_ms.
C8_NoKeyLeftHeld ==
    pc = "played"
    => /\ \A k \in KeyCodes :
             (\E i \in 1..Len(pevents) : IsKey(pevents[i], k, 1))
             => LastKeyEvent(pevents, k).value = 0
       /\ pstates # << >>
          => \A k \in pstates[Len(pstates)].keys_pressed :
                /\ LastKeyEvent(pevents, k).value = 0
                /\ LastKeyEvent(pevents, k).timestamp_us = 1000 * SumDurations(pstates)

\* two keys were held in the last state, which ends after the clock has advanced
C8_Witness ==
    /\ pc = "played"
    /\ Len(pstates) >= 2
    /\ pstates[Len(pstates)].keys_pressed = KeyCodes
    /\ pstates[1].keys_pressed = {}
    /\ SumDurations(pstates) > 0

\* the events a step of the player's loop has added
Emitted == SubSeq(pevents', Len(pevents) + 1, Len(pevents'))

\* C9: the timestamps of the player's output never decrease, and every event
\* emitted for state i carries 1000 times the sum of the duration_ms of the states
\* before i, so the events of the first state are at 0.
C9_VirtualClock ==
    /\ [](\A i \in 1..Len(pevents) - 1 :
             pevents[i].timestamp_us <= pevents[i + 1].timestamp_us)
    /\ [][(pc = "play" /\ idx' = idx + 1)
            => \A i \in 1..Len(Emitted) :
                  Emitted[i].timestamp_us = 1000 * SumDurations(SubSeq(pstates, 1, idx))]_vars

\* events of the first state at 0 and events of the third state after two waits
C9_Witness ==
    /\ pc = "play"
    /\ idx = 3
    /\ pevents # << >>
    /\ pevents[1].timestamp_us = 0
    /\ pevents[Len(pevents)].timestamp_us = 4000

----------------------------------------------------------------------------
(* Further properties of events_to_states *)

\* C11: events_to_states applied to an empty event sequence returns an empty state
\* sequence.
C11_EmptyInput ==
    (pc = "built" /\ events = << >>) => (result = << >> /\ events_to_states(events) = << >>)

\* the builder has returned for the empty slice
C11_Witness ==
    /\ pc = "built"
    /\ events = << >>
    /\ states = << >>

\* the sum of the signed values of the RelativeAxis events with the given code
RECURSIVE AxisSum(_, _)
AxisSum(evs, code) ==
    IF evs = << >> THEN 0
    ELSE (IF Head(evs).type = "RELATIVE" /\ Head(evs).code = code THEN Head(evs).value ELSE 0)
         + AxisSum(Tail(evs), code)

RECURSIVE SumMouse(_)
SumMouse(ss) ==
    IF ss = << >> THEN <<0, 0>>
    ELSE <<Head(ss).mouse_delta[1] + SumMouse(Tail(ss))[1],
           Head(ss).mouse_delta[2] + SumMouse(Tail(ss))[2]>>

RECURSIVE SumScroll(_)
SumScroll(ss) ==
    IF ss = << >> THEN <<0, 0>>
    ELSE <<Head(ss).scroll_delta[1] + SumScroll(Tail(ss))[1],
           Head(ss).scroll_delta[2] + SumScroll(Tail(ss))[2]>>

\* res is ss with runs of neighbours replaced by one state each: the state of a run
\* has the keys and the deltas of every state of the run and the sum of their
\* durations, and a run of more than one state has no motion
RECURSIVE MergedFrom(_, _)
MergedFrom(res, ss) ==
    IF res = << >> THEN ss = << >>
    ELSE \E n \in 1..Len(ss) :
            /\ \A i \in 1..n :
                  /\ ss[i].keys_pressed = res[1].keys_pressed
                  /\ ss[i].mouse_delta = res[1].mouse_delta
                  /\ ss[i].scroll_delta = res[1].scroll_delta
            /\ n > 1 => (res[1].mouse_delta = <<0, 0>> /\ res[1].scroll_delta = <<0, 0>>)
            /\ SumDurations(SubSeq(ss, 1, n)) = res[1].duration_ms
            /\ MergedFrom(Tail(res), SubSeq(ss, n + 1, Len(ss)))

\* the step of the loop that pushes a state
EmissionStep ==
    /\ pc = "record" /\ pc' = "record"
    /\ Len(states') = Len(states) + 1

\* what an event adds to accumulators that were just reset
AppliedAfterReset(e) ==
    /\ accumulated_mouse' =
         <<IF e.type = "RELATIVE" /\ e.code = 0 THEN e.value ELSE 0,
           IF e.type = "RELATIVE" /\ e.code = 1 THEN e.value ELSE 0>>
    /\ accumulated_scroll' =
         <<IF e.type = "RELATIVE" /\ e.code = 8 THEN e.value ELSE 0,
           IF e.type = "RELATIVE" /\ e.code = 6 THEN e.value ELSE 0>>

\* C13: every RelativeAxis delta is counted in exactly one snapshot before the
\* filter, the first one pushed after the event is applied: a pushed state takes the
\* accumulators and the held keys as they are, the accumulators restart from zero
\* and the held keys stay. The merge pass combines only neighbours with equal keys
\* and no motion, and changes nothing but duration_ms.
C13_MotionNotMergedNorLeaked ==
    /\ [](/\ pc = "record"
             => /\ SumMouse(states)[1] + accumulated_mouse[1] = AxisSum(events, 0)
                /\ SumMouse(states)[2] + accumulated_mouse[2] = AxisSum(events, 1)
                /\ SumScroll(states)[1] + accumulated_scroll[1] = AxisSum(events, 8)
                /\ SumScroll(states)[2] + accumulated_scroll[2] = AxisSum(events, 6)
          /\ pc = "built"
             => /\ SumMouse(FinalState(BuilderLocals))
                     = <<AxisSum(events, 0), AxisSum(events, 1)>>
                /\ SumScroll(FinalState(BuilderLocals))
                     = <<AxisSum(events, 8), AxisSum(events, 6)>>
                /\ MergedFrom(result, FilterSmallMovements(FinalState(BuilderLocals))))
    /\ [][EmissionStep
            => /\ states'[Len(states')].keys_pressed = current_keys
               /\ states'[Len(states')].mouse_delta = accumulated_mouse
               /\ states'[Len(states')].scroll_delta = accumulated_scroll
               /\ SubSeq(states', 1, Len(states)) = states
               /\ AppliedAfterReset(events'[Len(events')])
               /\ current_keys' \in {current_keys,
                                     current_keys \cup {events'[Len(events')].code},
                                     current_keys \ {events'[Len(events')].code}}]_vars

\* a wait and a wait with motion stay two states: the motion of the second interval
\* is in the second state alone
C13_Witness ==
    /\ pc = "built"
    /\ Len(result) = 2
    /\ result[1].keys_pressed = result[2].keys_pressed
    /\ result[1].mouse_delta = <<0, 0>> /\ result[1].scroll_delta = <<0, 0>>
    /\ result[2].mouse_delta # <<0, 0>>
    /\ result[2].duration_ms > 0

\* C15: in the builder's output every state other than the last one has
\* duration_ms > 0.
C15_ZeroDurationOnlyLast ==
    pc = "built" => \A i \in 1..Len(result) - 1 : result[i].duration_ms > 0

\* events less than a millisecond apart pushed no state, a later one did, and the
\* output ends with the zero-duration state
C15_Witness ==
    /\ pc = "built"
    /\ Len(events) = 3
    /\ events[1].timestamp_us = 0 /\ events[2].timestamp_us = 500
    /\ Len(result) = 2
    /\ result[2].duration_ms = 0

\* an event the builder does not track
Ignored(e) ==
    \/ e.type = "KEY" /\ e.value \notin {0, 1}
    \/ e.type = "RELATIVE" /\ e.code \notin {0, 1, 8, 6}
    \/ e.type \notin {"KEY", "RELATIVE"}

\* a step of the loop
RecordStep ==
    /\ pc = "record" /\ pc' = "record"
    /\ Len(events') = Len(events) + 1

\* the accumulators as the save of lines 57-70 leaves them: reset if a state was
\* pushed, untouched otherwise
MouseAfterSave == IF Len(states') > Len(states) THEN <<0, 0>> ELSE accumulated_mouse

ScrollAfterSave == IF Len(states') > Len(states) THEN <<0, 0>> ELSE accumulated_scroll

\* C16: a Key event with a value other than 0 or 1, an event that is neither Key nor
\* RelativeAxis, and a RelativeAxis event with a code other than 0, 1, 8, 6 change
\* none of held keys, mouse accumulator and scroll accumulator; a press adds exactly
\* its code to the held keys and a release removes exactly its code.
C16_IgnoredEvents ==
    [][RecordStep
         => LET e == events'[Len(events')]
            IN  /\ Ignored(e)
                   => /\ current_keys' = current_keys
                      /\ accumulated_mouse' = MouseAfterSave
                      /\ accumulated_scroll' = ScrollAfterSave
                /\ e.type = "KEY"
                   => /\ accumulated_mouse' = MouseAfterSave
                      /\ accumulated_scroll' = ScrollAfterSave
                /\ (e.type = "KEY" /\ e.value = 1)
                   => current_keys' = current_keys \cup {e.code}
                /\ (e.type = "KEY" /\ e.value = 0)
                   => current_keys' = current_keys \ {e.code}]_vars

\* a repeat of a key that is not held arrived while motion and scroll were
\* accumulated and another key was held
C16_Witness ==
    /\ pc = "record"
    /\ Len(events) = 3
    /\ events[3].type = "KEY" /\ events[3].value = 2
    /\ events[3].code \notin current_keys
    /\ current_keys # {}
    /\ accumulated_mouse # <<0, 0>> \/ accumulated_scroll # <<0, 0>>

\* the next release of the key pressed by event i, or 0
NextRelease(evs, i) ==
    LET J == {j \in i + 1..Len(evs) : IsKey(evs[j], evs[i].code, 0)}
    IN  IF J = {} THEN 0 ELSE CHOOSE j \in J : \A j2 \in J : j <= j2

\* C17: for an input with non-decreasing timestamps, a key pressed at t whose next
\* release is at t + 1000 us or later is in keys_pressed of at least one returned
\* state, whatever events lie between.
C17_KeyHoldRepresented ==
    (pc = "built" /\ NonDecreasing(events))
    => \A i \in 1..Len(events) :
          (/\ events[i].type = "KEY" /\ events[i].value = 1
           /\ NextRelease(events, i) # 0
           /\ events[NextRelease(events, i)].timestamp_us >= events[i].timestamp_us + 1000)
          => \E n \in 1..Len(result) : events[i].code \in result[n].keys_pressed

\* C19: the scroll_delta of the returned states add up, component by component, to
\* the sums of the values of the input RelativeAxis events with code 8 and with
\* code 6.
C19_ScrollConserved ==
    pc = "built" => SumScroll(result) = <<AxisSum(events, 8), AxisSum(events, 6)>>

\* scroll in a state with a duration and scroll in the final state
C19_Witness ==
    /\ pc = "built"
    /\ Len(result) = 2
    /\ result[1].scroll_delta = <<1, 0>>
    /\ result[1].duration_ms > 0
    /\ result[2].scroll_delta = <<0, -1>>
    /\ result[2].keys_pressed = {}

\* C20: every returned state with duration_ms = 0 has keys pressed or a non-zero
\* mouse_delta or a non-zero scroll_delta.
C20_ZeroDurationHasContent ==
    pc = "built"
    => \A i \in 1..Len(result) : result[i].duration_ms = 0 => ~is_empty(result[i])

----------------------------------------------------------------------------
(* Further properties of states_to_events *)

\* the place of an event in the playback of one state; Synchronization events
\* follow the event they flush and have no place of their own
Place(e) ==
    IF e.type = "KEY" /\ e.value = 0 THEN 1
    ELSE IF e.type = "KEY" /\ e.value = 1 THEN 2
    ELSE IF e.type = "RELATIVE" /\ e.code = 0 THEN 3
    ELSE IF e.type = "RELATIVE" /\ e.code = 1 THEN 4
    ELSE IF e.type = "RELATIVE" /\ e.code = 8 THEN 5
    ELSE IF e.type = "RELATIVE" /\ e.code = 6 THEN 6
    ELSE 0

\* C14: among the events played for one state the key releases come before the key
\* presses, these before the mouse events (x then y), these before the scroll
\* events (vertical then horizontal); no key is both released and pressed for the
\* same state.
C14_OrderInsideState ==
    [][(pc = "play" /\ idx' = idx + 1)
         => \A i, j \in Len(pevents) + 1..Len(pevents') :
               (i < j /\ Place(pevents'[i]) # 0 /\ Place(pevents'[j]) # 0)
               => /\ Place(pevents'[i]) <= Place(pevents'[j])
                  /\ pevents'[i].type = pevents'[j].type
                     => pevents'[i].code # pevents'[j].code]_vars

\* the second state released W, pressed A, moved the mouse and scrolled both ways
C14_Witness ==
    /\ pc = "play"
    /\ idx = 2
    /\ pstates[1].keys_pressed = {17}
    /\ pstates[2].keys_pressed = {30}
    /\ pstates[2].mouse_delta = <<0, 3>>
    /\ pstates[2].scroll_delta = <<1, -1>>
    /\ Len(pevents) = 11
    /\ IsKey(pevents[3], 17, 0)
    /\ IsKey(pevents[5], 30, 1)
    /\ pevents[10].code = 6

\* the player's Key events scanned in order from the given held keys: whether every
\* press is of a key not held and every release of a key held, and the keys held at
\* the end
RECURSIVE ScanKeys(_, _)
ScanKeys(evs, keys) ==
    IF evs = << >> THEN [ok |-> TRUE, keys |-> keys]
    ELSE LET e == Head(evs)
         IN  IF e.type = "KEY" /\ e.value = 1
             THEN IF e.code \in keys THEN [ok |-> FALSE, keys |-> keys]
                  ELSE ScanKeys(Tail(evs), keys \cup {e.code})
             ELSE IF e.type = "KEY" /\ e.value = 0
             THEN IF e.code \notin keys THEN [ok |-> FALSE, keys |-> keys]
                  ELSE ScanKeys(Tail(evs), keys \ {e.code})
             ELSE ScanKeys(Tail(evs), keys)

\* C18: in the player's output a press is emitted only for a key that is not held
\* and a release only for a key that is held, and right after the events of state i
\* the keys held are the keys_pressed of state i.
C18_KeyEventsWellFormed ==
    pc \in {"play", "played"}
    => /\ ScanKeys(pevents, {}).ok
       /\ (pc = "play" /\ idx > 0) => ScanKeys(pevents, {}).keys = pstates[idx].keys_pressed

\* W, then W and A, then A alone
C18_Witness ==
    /\ pc = "play"
    /\ idx = 3
    /\ pstates[1].keys_pressed = {17}
    /\ pstates[2].keys_pressed = {17, 30}
    /\ pstates[3].keys_pressed = {30}
    /\ ScanKeys(pevents, {}).keys = {30}

----------------------------------------------------------------------------
(* Properties of the keymap *)

\* C12: for every keycode k of the QWERTY table, name_to_keycode(keycode_to_name(k))
\* is Some(k), also when the name is passed in lower or mixed case; a name that is
\* the name of no key, whatever the case, yields None.
C12_KeymapRoundTrip ==
    /\ (pc = "found" /\ kname # None) => kfound = Some(kcode)
    /\ (pc = "found" /\ \A e \in QwertyEntries : to_lowercase(e[2]) # to_lowercase(kquery))
       => kfound = None
    /\ (pc = "named" /\ \E e \in QwertyEntries : e[1] = kcode) => kname # None

\* BTN_LEFT was looked up in lower case
C12_Witness ==
    /\ pc = "found"
    /\ kcode = 272
    /\ kquery = <<"b", "t", "n", "_", "l", "e", "f", "t">>
    /\ kfound = Some(272)

\* an unknown name was looked up
C12_WitnessUnknown ==
    /\ pc = "found"
    /\ kquery = <<"I", "N", "V", "A", "L", "I", "D">>
    /\ kfound = None

====
